---- MODULE Spec2Model ----
(***************************************************************************)
(* Model of tools/claude_tool_stub.py: ios_debug_command, the helper that  *)
(* validates a debugger command, builds its JSON payload and forwards it   *)
(* to the ios-LLDB HTTP surface with requests.post.                        *)
(*                                                                         *)
(* One behaviour of the model is one invocation of ios_debug_command.      *)
(* Init draws the keyword arguments and the kind of remote service; the    *)
(* actions are the steps of the function body in program order, with the   *)
(* steps requests.post performs (connect, wait for the response, follow    *)
(* a redirect) made explicit.                                              *)
(***************************************************************************)
EXTENDS Integers, Sequences, FiniteSets, TLC

VARIABLES
    args,       \* the keyword arguments of the call (lines 16-27)
    service,    \* what the remote service does: "echo", "silent" or "any"
    pc,         \* position in the function body
    payload,    \* the dict built by lines 32-47 (EmptyObj before it is built)
    sent,       \* every HTTP request handed to the network, in order
    resp,       \* the response most recently received (NoResp before)
    clock,      \* time units waited in the current connect / read
    redirects,  \* redirects followed so far by requests
    outcome,    \* "none" while running, "ok", or the exception raised
    err,        \* what the raised HTTPError carries (its response)
    result,     \* the value returned by line 53 (EmptyObj if none)
    steps       \* log of the steps run: validate, send, await, status, decode

vars == <<args, service, pc, payload, sent, resp, clock, redirects,
          outcome, err, result, steps>>

----------------------------------------------------------------------------
(* Bounds of the model *)

\* timeout takes the values 1..MaxTimeout time units
MaxTimeout == 1

\* requests gives up after this many redirects (30 in the library)
MaxRedirects == 1

----------------------------------------------------------------------------
(* Python values: None, a str, an int *)

PyNone == [k |-> "none", s |-> "", n |-> 0]

PyStr(x) == [k |-> "str", s |-> x, n |-> 0]

PyInt(x) == [k |-> "int", s |-> "", n |-> x]

\* the empty dict; also stands for "no payload built", "nothing returned"
EmptyObj == [key \in {} |-> PyNone]

\* a test that takes only None for missing
TruthyNoneOnly(v) == v # PyNone

\* Python truthiness of an Optional[str]: None and "" are falsy
Truthy(v) == v # PyNone /\ v # PyStr("")

\* `x is None`
IsNone(v) == v = PyNone

Actions == {"set_breakpoint", "evaluate", "evaluate_swift", "watch_expr",
            "variables", "select_thread", "continue", ""}

EvalActions == {"evaluate", "evaluate_swift", "watch_expr"}

KnownActions == {"set_breakpoint", "variables", "select_thread"} \cup EvalActions

FileVals == {PyNone, PyStr(""), PyStr("a.swift")}

LineVals == {PyNone, PyInt(0), PyInt(10)}

ExprVals == {PyNone, PyStr(""), PyStr("x+1")}

VarRefVals == {PyNone, PyInt(0), PyInt(5)}

ThreadVals == {PyNone, PyInt(0), PyInt(-1)}

Timeouts == 1..MaxTimeout

Services == {"echo", "silent", "any"}

ArgSets == [action : Actions, file : FileVals, line : LineVals,
            expression : ExprVals, variables_reference : VarRefVals,
            thread_id : ThreadVals, timeout : Timeouts]

----------------------------------------------------------------------------
(* Lines 32-47: validation and payload construction *)

\* d[key] = v
Put(d, key, v) == [x \in (DOMAIN d) \cup {key} |-> IF x = key THEN v ELSE d[x]]

\* a validation without the select_thread check
ValidationFailsNoThread(a) ==
    \/ a.action = "set_breakpoint" /\ (~Truthy(a.file) \/ IsNone(a.line))
    \/ a.action \in EvalActions /\ ~Truthy(a.expression)

\* the three `raise ValueError` conditions, lines 34, 39, 45
ValidationFails(a) ==
    \/ a.action = "set_breakpoint" /\ (~Truthy(a.file) \/ IsNone(a.line))
    \/ a.action \in EvalActions /\ ~Truthy(a.expression)
    \/ a.action = "select_thread" /\ IsNone(a.thread_id)

\* a payload builder that copies file whenever the caller gave one
BuildPayloadLeaky(a) ==
    LET p0 == [key \in {"action"} |-> PyStr(a.action)]
        p1 == IF a.file # PyNone
              THEN Put(p0, "file", a.file)
              ELSE p0
        p2 == IF a.action = "set_breakpoint" THEN Put(p1, "line", a.line) ELSE p1
        p3 == IF a.action \in EvalActions
              THEN Put(p2, "expression", a.expression)
              ELSE p2
        p4 == IF a.action = "variables" /\ ~IsNone(a.variables_reference)
              THEN Put(p3, "variablesReference", a.variables_reference)
              ELSE p3
    IN  IF a.action = "select_thread" THEN Put(p4, "threadId", a.thread_id) ELSE p4

\* a payload builder that tests variables_reference for truth, not for None
BuildPayloadTruthyRef(a) ==
    LET p0 == [key \in {"action"} |-> PyStr(a.action)]
        p1 == IF a.action = "set_breakpoint"
              THEN Put(Put(p0, "file", a.file), "line", a.line)
              ELSE p0
        p2 == IF a.action \in EvalActions
              THEN Put(p1, "expression", a.expression)
              ELSE p1
        p3 == IF a.action = "variables" /\ a.variables_reference \notin {PyNone, PyInt(0)}
              THEN Put(p2, "variablesReference", a.variables_reference)
              ELSE p2
    IN  IF a.action = "select_thread" THEN Put(p3, "threadId", a.thread_id) ELSE p3

\* a payload builder whose last branch is an else: every other action gets threadId
BuildPayloadElseThread(a) ==
    LET p0 == [key \in {"action"} |-> PyStr(a.action)]
        p1 == IF a.action = "set_breakpoint"
              THEN Put(Put(p0, "file", a.file), "line", a.line)
              ELSE p0
        p2 == IF a.action \in EvalActions
              THEN Put(p1, "expression", a.expression)
              ELSE p1
        p3 == IF a.action = "variables" /\ ~IsNone(a.variables_reference)
              THEN Put(p2, "variablesReference", a.variables_reference)
              ELSE p2
    IN  IF a.action \notin KnownActions \/ a.action = "select_thread"
        THEN Put(p3, "threadId", a.thread_id)
        ELSE p3

\* the dict after lines 32-47, for arguments that raise nowhere
BuildPayload(a) ==
    LET p0 == [key \in {"action"} |-> PyStr(a.action)]
        p1 == IF a.action = "set_breakpoint"
              THEN Put(Put(p0, "file", a.file), "line", a.line)
              ELSE p0
        p2 == IF a.action \in EvalActions
              THEN Put(p1, "expression", a.expression)
              ELSE p1
        p3 == IF a.action = "variables" /\ ~IsNone(a.variables_reference)
              THEN Put(p2, "variablesReference", a.variables_reference)
              ELSE p2
    IN  IF a.action = "select_thread" THEN Put(p3, "threadId", a.thread_id) ELSE p3

----------------------------------------------------------------------------
(* JSON text: json=payload on line 50 and resp.json() on line 53.           *)
(* A document is a sequence of tokens; an integer is written in decimal.    *)

Tok(t, s, d, neg) == [t |-> t, s |-> s, d |-> d, neg |-> neg]

LBrace == Tok("{", "", <<>>, FALSE)

RBrace == Tok("}", "", <<>>, FALSE)

KeyTok(name) == Tok("key", name, <<>>, FALSE)

\* insertion order of the keys of payload
KeyOrder == <<"action", "file", "line", "expression", "variablesReference",
              "threadId", "error">>

RECURSIVE IntToDigits(_)
IntToDigits(n) ==
    IF n < 10 THEN <<n>> ELSE Append(IntToDigits(n \div 10), n % 10)

RECURSIVE DigitsToInt(_)
DigitsToInt(d) ==
    IF Len(d) = 0 THEN 0
    ELSE 10 * DigitsToInt(SubSeq(d, 1, Len(d) - 1)) + d[Len(d)]

Abs(n) == IF n < 0 THEN 0 - n ELSE n

EncodeValue(v) ==
    IF v.k = "str" THEN Tok("str", v.s, <<>>, FALSE)
    ELSE Tok("num", "", IntToDigits(Abs(v.n)), v.n < 0)

\* a decoder that loses the sign of a number
DecodeValueUnsigned(tok) ==
    IF tok.t = "str" THEN PyStr(tok.s) ELSE PyInt(DigitsToInt(tok.d))

DecodeValue(tok) ==
    IF tok.t = "str" THEN PyStr(tok.s)
    ELSE PyInt(IF tok.neg THEN 0 - DigitsToInt(tok.d) ELSE DigitsToInt(tok.d))

RECURSIVE SerializeFrom(_, _)
SerializeFrom(obj, i) ==
    IF i > Len(KeyOrder) THEN <<>>
    ELSE IF KeyOrder[i] \in DOMAIN obj
         THEN <<KeyTok(KeyOrder[i]), EncodeValue(obj[KeyOrder[i]])>>
              \o SerializeFrom(obj, i + 1)
         ELSE SerializeFrom(obj, i + 1)

\* json.dumps of a dict of str and int values
Serialize(obj) == <<LBrace>> \o SerializeFrom(obj, 1) \o <<RBrace>>

\* whether text is a JSON object of str and int members
ParseOK(text) ==
    /\ Len(text) >= 2
    /\ text[1] = LBrace
    /\ text[Len(text)] = RBrace
    /\ Len(text) % 2 = 0
    /\ \A i \in 2..(Len(text) - 1) :
          IF i % 2 = 0 THEN text[i].t = "key"
          ELSE \/ text[i].t = "str"
               \/ text[i].t = "num" /\ Len(text[i].d) > 0

\* json.loads of such a text (a repeated key keeps its last value)
Parse(text) ==
    LET keyPos == {i \in 2..(Len(text) - 1) : i % 2 = 0}
        last(name) == CHOOSE i \in keyPos :
                         /\ text[i].s = name
                         /\ \A j \in keyPos : text[j].s = name => j <= i
    IN  [name \in {text[i].s : i \in keyPos} |-> DecodeValue(text[last(name) + 1])]

ErrorBody == Serialize([key \in {"error"} |-> PyStr("boom")])

InvalidBody == <<Tok("raw", "<html>", <<>>, FALSE)>>

EmptyBody == <<>>

----------------------------------------------------------------------------
(* Lines 49-53: requests.post, raise_for_status, json *)

NoResp == [status |-> 0, location |-> FALSE, body |-> EmptyBody]

Response(st, loc, b) == [status |-> st, location |-> loc, body |-> b]

Request(m, u, b) == [method |-> m, url |-> u, body |-> b]

\* requests follows a response only if it has a Location header and one of
\* these statuses (allow_redirects is left at its default on line 49)
RedirectStatuses == {301, 302, 303, 307, 308}

IsRedirect(r) == r.location /\ r.status \in RedirectStatuses

\* the request that follows a redirect: 307 and 308 repeat the POST and its
\* body, the others turn it into a GET without a body
NextRequest(req, r) ==
    IF r.status \in {307, 308} THEN Request(req.method, "location", req.body)
    ELSE Request("GET", "location", EmptyBody)

\* Response.raise_for_status raises for 4xx and 5xx only
RaisesForStatus(st) == 400 <= st /\ st < 600

\* a call made without a timeout never runs out of time
TimeoutExpiredNever(c, t) == FALSE

\* the timer of a connect or read has run out
TimeoutExpired(c, t) == c >= t

\* requests.exceptions.Timeout and its subclasses
IsTimeout(o) == o \in {"ConnectTimeout", "ReadTimeout"}

\* the responses a service may give to a request
Responses(req) ==
    {Response(st, FALSE, b) : st \in {200, 300, 404, 500},
                              b \in {req.body, ErrorBody, InvalidBody}}
    \cup {Response(st, loc, EmptyBody) : st \in {302, 307}, loc \in BOOLEAN}

LastSent == sent[Len(sent)]

----------------------------------------------------------------------------
Init ==
    /\ args \in ArgSets
    /\ service \in Services
    /\ pc = "build"
    /\ payload = EmptyObj
    /\ sent = <<>>
    /\ resp = NoResp
    /\ clock = 0
    /\ redirects = 0
    /\ outcome = "none"
    /\ err = NoResp
    /\ result = EmptyObj
    /\ steps = <<>>

Raise(exc) ==
    /\ outcome' = exc
    /\ pc' = "done"

\* lines 32-47
Build ==
    /\ pc = "build"
    /\ steps' = Append(steps, "validate")
    /\ IF ValidationFails(args)
       THEN /\ Raise("ValueError")
            /\ UNCHANGED payload
       ELSE /\ payload' = BuildPayload(args)
            /\ pc' = "open"
            /\ UNCHANGED outcome
    /\ UNCHANGED <<args, service, sent, resp, clock, redirects, err, result>>

\* line 49: the POST to /command is prepared and handed to the network
Open ==
    /\ pc = "open"
    /\ sent' = Append(sent, Request("POST", "/command", Serialize(payload)))
    /\ steps' = Append(steps, "send")
    /\ clock' = 0
    /\ pc' = "connect"
    /\ UNCHANGED <<args, service, payload, resp, redirects, outcome, err, result>>

\* the service accepts the connection and the request is written
ConnectOK ==
    /\ pc = "connect"
    /\ steps' = Append(steps, "await")
    /\ clock' = 0
    /\ pc' = "await"
    /\ UNCHANGED <<args, service, payload, sent, resp, redirects, outcome, err, result>>

\* the connection is refused, the host is unreachable or unknown
ConnectRefused ==
    /\ pc = "connect"
    /\ service = "any"
    /\ Raise("ConnectionError")
    /\ UNCHANGED <<args, service, payload, sent, resp, clock, redirects, err, result, steps>>

\* time passes while the call waits (an echoing service answers in time)
Tick ==
    /\ pc \in {"connect", "await"}
    /\ clock < args.timeout
    /\ service = "echo" => clock + 1 < args.timeout
    /\ clock' = clock + 1
    /\ UNCHANGED <<args, service, pc, payload, sent, resp, redirects, outcome, err, result, steps>>

\* timeout=timeout on line 50: the connect or the read runs out of time
TimedOut ==
    /\ pc \in {"connect", "await"}
    /\ TimeoutExpired(clock, args.timeout)
    /\ Raise(IF pc = "connect" THEN "ConnectTimeout" ELSE "ReadTimeout")
    /\ UNCHANGED <<args, service, payload, sent, resp, clock, redirects, err, result, steps>>

\* the service answers the request
Respond ==
    /\ pc = "await"
    /\ service # "silent"
    /\ \E r \in Responses(LastSent) :
          /\ service = "echo" => r = Response(200, FALSE, LastSent.body)
          /\ resp' = r
    /\ pc' = "received"
    /\ UNCHANGED <<args, service, payload, sent, clock, redirects, outcome, err, result, steps>>

\* inside requests.post: a redirect response is followed with a new request
FollowRedirect ==
    /\ pc = "received"
    /\ IsRedirect(resp)
    /\ IF redirects >= MaxRedirects
       THEN /\ Raise("TooManyRedirects")
            /\ UNCHANGED <<sent, steps, clock, redirects>>
       ELSE /\ sent' = Append(sent, NextRequest(LastSent, resp))
            /\ steps' = Append(steps, "send")
            /\ redirects' = redirects + 1
            /\ clock' = 0
            /\ pc' = "connect"
            /\ UNCHANGED outcome
    /\ UNCHANGED <<args, service, payload, resp, err, result>>

\* line 52: resp.raise_for_status()
RaiseForStatus ==
    /\ pc = "received"
    /\ ~IsRedirect(resp)
    /\ steps' = Append(steps, "status")
    /\ IF RaisesForStatus(resp.status)
       THEN /\ Raise("HTTPError")
            /\ err' = resp
       ELSE /\ pc' = "decode"
            /\ UNCHANGED <<outcome, err>>
    /\ UNCHANGED <<args, service, payload, sent, resp, clock, redirects, result>>

\* line 53: return resp.json()
Decode ==
    /\ pc = "decode"
    /\ steps' = Append(steps, "decode")
    /\ IF ParseOK(resp.body)
       THEN /\ result' = Parse(resp.body)
            /\ outcome' = "ok"
            /\ pc' = "done"
       ELSE /\ Raise("JSONDecodeError")
            /\ UNCHANGED result
    /\ UNCHANGED <<args, service, payload, sent, resp, clock, redirects, err>>

Next ==
    \/ Build
    \/ Open
    \/ ConnectOK
    \/ ConnectRefused
    \/ Tick
    \/ TimedOut
    \/ Respond
    \/ FollowRedirect
    \/ RaiseForStatus
    \/ Decode

Spec == Init /\ [][Next]_vars

\* The function body runs to its end, and the timer of a pending connect or
\* read keeps running: the steps of the program are weakly fair. What the
\* service does (ConnectOK, ConnectRefused, Respond) is not.
FairSpec ==
    /\ Spec
    /\ WF_vars(Build)
    /\ WF_vars(Open)
    /\ WF_vars(Tick)
    /\ WF_vars(TimedOut)
    /\ WF_vars(FollowRedirect)
    /\ WF_vars(RaiseForStatus)
    /\ WF_vars(Decode)

----------------------------------------------------------------------------
(* Properties *)

Validated == pc # "build" /\ outcome # "ValueError"

Only(a) == [key \in {"action"} |-> PyStr(a.action)]

\* what the first request must be when the payload is p
CommandPost(p) == Request("POST", "/command", Serialize(p))

\* a required field of the action is omitted (left at None)
RequiredOmitted(a) ==
    \/ a.action = "set_breakpoint" /\ (a.file = PyNone \/ a.line = PyNone)
    \/ a.action \in EvalActions /\ a.expression = PyNone
    \/ a.action = "select_thread" /\ a.thread_id = PyNone

\* C1: with a required field omitted (file or line for set_breakpoint,
\* expression for evaluate, evaluate_swift, watch_expr, thread_id for
\* select_thread) the call ends in the validation error, and no HTTP request
\* is sent at any point of that invocation.
C1_MissingFieldRaisesBeforeNetwork ==
    RequiredOmitted(args) =>
        /\ sent = <<>>
        /\ payload = EmptyObj
        /\ pc \in {"build", "done"}
        /\ pc = "done" => outcome = "ValueError" /\ result = EmptyObj

C1_Witness ==
    /\ pc = "done"
    /\ outcome = "ValueError"
    /\ args.action = "select_thread"
    /\ args.thread_id = PyNone
    /\ args.file # PyNone

\* the keys the claim allows: a field is present iff it was supplied and is
\* relevant to the action
RelevantSupplied(a) ==
    {"action"}
    \cup {key \in {"file"} : a.action = "set_breakpoint" /\ a.file # PyNone}
    \cup {key \in {"line"} : a.action = "set_breakpoint" /\ a.line # PyNone}
    \cup {key \in {"expression"} : a.action \in EvalActions /\ a.expression # PyNone}
    \cup {key \in {"variablesReference"} :
             a.action = "variables" /\ a.variables_reference # PyNone}
    \cup {key \in {"threadId"} : a.action = "select_thread" /\ a.thread_id # PyNone}

Supplied(a, key) ==
    CASE key = "action" -> PyStr(a.action)
      [] key = "file" -> a.file
      [] key = "line" -> a.line
      [] key = "expression" -> a.expression
      [] key = "variablesReference" -> a.variables_reference
      [] key = "threadId" -> a.thread_id

\* C2: once validation has succeeded the payload carries action, and each of
\* file, line, expression, variablesReference, threadId iff the caller
\* supplied it and it is relevant to the action, with the value supplied;
\* that payload is the body of the POST to /command.
C2_PayloadHasExactlyRelevantSuppliedFields ==
    Validated =>
        /\ DOMAIN payload = RelevantSupplied(args)
        /\ \A key \in DOMAIN payload : payload[key] = Supplied(args, key)
        /\ sent # <<>> =>
              /\ sent[1] = CommandPost(payload)
              /\ ParseOK(sent[1].body)
              /\ DOMAIN Parse(sent[1].body) = RelevantSupplied(args)

C2_Witness ==
    /\ Validated
    /\ args.action = "evaluate"
    /\ args.expression = PyStr("x+1")
    /\ args.file = PyStr("a.swift")
    /\ args.line = PyInt(10)
    /\ Len(sent) = 1
    /\ DOMAIN payload = {"action", "expression"}

\* C3: for action variables validation never fails, and the payload is
\* {action} without variables_reference and {action, variablesReference: v}
\* with variables_reference = v.
C3_VariablesNeverFailsValidation ==
    args.action = "variables" =>
        /\ outcome # "ValueError"
        /\ pc # "build" =>
              /\ payload = IF args.variables_reference = PyNone
                           THEN Only(args)
                           ELSE Put(Only(args), "variablesReference",
                                    args.variables_reference)
              /\ sent # <<>> => sent[1] = CommandPost(payload)

C3_Witness ==
    /\ args.action = "variables"
    /\ args.variables_reference = PyInt(5)
    /\ args.expression # PyNone
    /\ Len(sent) = 1
    /\ "variablesReference" \in DOMAIN payload

\* C4: for an action that is none of the six special-cased ones validation
\* succeeds whatever fields are given, and the payload sent is exactly
\* {action}.
C4_OtherActionSendsOnlyAction ==
    args.action \notin KnownActions =>
        /\ outcome # "ValueError"
        /\ pc # "build" =>
              /\ payload = Only(args)
              /\ sent # <<>> => sent[1] = CommandPost(Only(args))

C4_Witness ==
    /\ args.action = "continue"
    /\ args.file = PyStr("a.swift")
    /\ args.thread_id = PyInt(0)
    /\ args.expression = PyStr("x+1")
    /\ Len(sent) = 1
    /\ payload = Only(args)

Success(st) == 200 <= st /\ st < 300

\* C5: if the service answers with a non-2xx status and an error detail (a
\* JSON body such as {"error": "boom"}), the invocation fails with a
\* transport error that carries that status and that detail, and returns no
\* result.
C5_NonSuccessStatusFails ==
    (pc = "done" /\ resp # NoResp /\ ~Success(resp.status) /\ ParseOK(resp.body)) =>
        /\ outcome = "HTTPError"
        /\ err = resp
        /\ result = EmptyObj

\* C6: an invocation that passes validation sends exactly one request, the
\* POST to /command, whatever the service does.
C6_ExactlyOneRequest ==
    /\ Len(sent) <= 1
    /\ (Validated /\ pc # "open") => sent = <<CommandPost(payload)>>

\* C7: against a service that answers every request with a success status
\* and the request body it received, an invocation that passes validation
\* returns a result equal to the payload built for it.
C7_EchoRoundTrip ==
    (service = "echo" /\ pc = "done" /\ outcome # "ValueError") =>
        /\ outcome = "ok"
        /\ result = payload

C7_Witness ==
    /\ service = "echo"
    /\ pc = "done"
    /\ outcome = "ok"
    /\ args.action = "select_thread"
    /\ result = Put(Only(args), "threadId", PyInt(-1))

LinearSteps == <<"validate", "send", "await", "status", "decode">>

IsPrefix(s, t) == Len(s) <= Len(t) /\ s = SubSeq(t, 1, Len(s))

\* C8: the steps validate, send, await, status check, decode run once each in
\* that order; the invocation ends in one outcome, success or the failure of
\* the first step that fails; no step runs after a failure, and a result is
\* returned only if every step succeeded.
C8_SingleLinearSequence ==
    /\ IsPrefix(steps, LinearSteps)
    /\ pc = "done" <=> outcome # "none"
    /\ outcome = "ok" <=> result # EmptyObj
    /\ outcome = "ok" => steps = LinearSteps
    /\ outcome = "ValueError" => steps = <<"validate">>
    /\ outcome = "HTTPError" => steps = SubSeq(LinearSteps, 1, 4)
    /\ outcome = "JSONDecodeError" => steps = LinearSteps

\* C9: against a service that never responds, an invocation that passes
\* validation terminates: it fails with a timeout, which is not the plain
\* connection failure, once the timeout has elapsed, and returns no result.
C9_SilentServiceTimesOut ==
    (service = "silent" /\ pc = "open") ~>
        (/\ pc = "done"
         /\ IsTimeout(outcome)
         /\ outcome # "ConnectionError"
         /\ clock = args.timeout
         /\ result = EmptyObj)

C9_Witness ==
    /\ service = "silent"
    /\ pc = "done"
    /\ outcome = "ReadTimeout"
    /\ clock = args.timeout
    /\ Len(sent) = 1

\* C10: validation takes the empty string for a missing value and the
\* integer 0 for a supplied one: set_breakpoint with file "" and the three
\* evaluate actions with expression "" raise the validation error and send
\* nothing; set_breakpoint with line 0, select_thread with thread_id 0 and
\* variables with variables_reference 0 pass and carry the 0.
C10_EmptyStringMissingZeroSupplied ==
    /\ (\/ args.action = "set_breakpoint" /\ args.file = PyStr("")
        \/ args.action \in EvalActions /\ args.expression = PyStr(""))
       => (/\ sent = <<>>
           /\ pc \in {"build", "done"}
           /\ pc = "done" => outcome = "ValueError")
    /\ (/\ pc # "build"
        /\ args.action = "set_breakpoint"
        /\ Truthy(args.file)
        /\ args.line = PyInt(0))
       => (outcome # "ValueError" /\ payload["line"] = PyInt(0))
    /\ (pc # "build" /\ args.action = "select_thread" /\ args.thread_id = PyInt(0))
       => (outcome # "ValueError" /\ payload["threadId"] = PyInt(0))
    /\ (pc # "build" /\ args.action = "variables"
        /\ args.variables_reference = PyInt(0))
       => (outcome # "ValueError" /\ payload["variablesReference"] = PyInt(0))

C10_Witness ==
    /\ pc = "done"
    /\ outcome = "ValueError"
    /\ args.action = "set_breakpoint"
    /\ args.file = PyStr("")
    /\ args.line = PyInt(0)

====
